---- MODULE Spec2Model ----
(***************************************************************************)
(* Model of the two SQLMesh macros of the repository:                      *)
(*   src/sqlmesh/macros/star_v2.py                  star_v2                *)
(*   src/sqlmesh/macros/generate_surrogate_key.py   generate_surrogate_... *)
(*                                                                         *)
(* SQLGlot expression nodes are records with a "kind" field.  The schema   *)
(* resolver (evaluator.columns_to_types) is an input of every call: an     *)
(* ordered column map, or a failure.                                       *)
(***************************************************************************)
EXTENDS Integers, Sequences, FiniteSets, TLC

\* ------------------------------------------------------------------ bounds
\* Longest column map the resolver returns.
MaxCols == 2
\* Longest field list handed to the surrogate key macro.
MaxFields == 2

\* ------------------------------------------------------- expression nodes
Column(name, quoted) == [kind |-> "Column", this |-> name, quoted |-> quoted]
Identifier(name, quoted) == [kind |-> "Identifier", this |-> name, quoted |-> quoted]
Literal(s) == [kind |-> "Literal", this |-> s]
Boolean(b) == [kind |-> "Boolean", this |-> b]
Tuple(es) == [kind |-> "Tuple", expressions |-> es]
Array(es) == [kind |-> "Array", expressions |-> es]
\* A parameter the caller leaves out: Python binds the default object.
Omitted == [kind |-> "Omitted"]

\* A qualified column reference, exp.column(column, table=..., quoted=...).
column(name, table, quoted) ==
    [kind |-> "Column", this |-> name, table |-> table, quoted |-> quoted]
\* exp.cast(expression, dtype)
cast(e, dtype) == [kind |-> "Cast", this |-> e, to |-> dtype]
\* Expression.as_(alias, quoted=...)
as_(e, name, quoted) == [kind |-> "Alias", this |-> e, alias |-> name, quoted |-> quoted]

\* Expression.name: the text of the node's "this".
name(node) == node.this

\* isinstance(node, kinds)
isinstance(node, kinds) == node.kind \in kinds

\* Python truth value of an argument.  Every argument is a sqlglot Expression
\* object; the class defines neither __bool__ nor __len__, so the object is
\* true whatever it holds (an empty tuple, an empty string literal, FALSE).
ExpressionKinds ==
    {"Column", "Identifier", "Literal", "Boolean", "Tuple", "Array"}
Truthy(node) == node.kind \in ExpressionKinds

\* The names bound in star_v2.py's module namespace (its imports).  A name the
\* function body reads that is not here (and is no builtin) raises NameError.
ModuleGlobals ==
    {"t", "macro", "exp", "MacroEvaluator", "normalize_identifiers",
     "MacroEvalError", "SQLMeshError"}
Bound(n) == n \in ModuleGlobals

\* The default argument nodes, built once when the function is defined and
\* shared by every call that omits the parameter.
DefaultNodes ==
    [alias |-> Column("", FALSE),
     exclude |-> Tuple(<<>>),
     prefix |-> Literal(""),
     suffix |-> Literal(""),
     quote_identifiers |-> Boolean(TRUE),
     except_ |-> Tuple(<<>>),
     select_only |-> Boolean(FALSE)]

\* exp.tuple_(): a new empty tuple (compared by structure).
tuple_ == Tuple(<<>>)

\* str.lower() on the identifier alphabet of the model.
Lower(s) == IF s = "A" THEN "a" ELSE IF s = "C" THEN "c" ELSE s

\* normalize_identifiers(node, dialect): an unquoted identifier is folded to
\* lower case, a quoted one is kept (the default dialect's strategy).
normalize_identifiers(node) ==
    IF node.quoted THEN node ELSE [node EXCEPT !.this = Lower(node.this)]

\* ------------------------------------------------------------ outcomes
Return(value, warned, dflt) ==
    [status |-> "return", error |-> "none", arg |-> "none", value |-> value,
     warned |-> warned, consulted |-> TRUE, defaults |-> dflt]
Raise(error, arg, warned, consulted, dflt) ==
    [status |-> "raise", error |-> error, arg |-> arg, value |-> <<>>,
     warned |-> warned, consulted |-> consulted, defaults |-> dflt]

VARIABLES pc, call, outcome, defaults, row, hashed, earlier
vars == <<pc, call, outcome, defaults, row, hashed, earlier>>

\* ------------------------------------------------------------- star_v2
\* A parameter's value inside the call: the caller's node, or the shared
\* default object when the parameter is omitted.
Arg(given, dflt) == IF given = Omitted THEN dflt ELSE given

\* A variant of BindExclude that collects a bare column into the shared
\* default tuple instead of building a new tuple.
BindExcludeShared(exclude, dflt) ==
    IF isinstance(exclude, {"Column"})
    THEN LET shared == Tuple(Append(dflt.exclude.expressions, exclude))
         IN [exclude |-> shared, defaults |-> [dflt EXCEPT !.exclude = shared]]
    ELSE [exclude |-> exclude, defaults |-> dflt]

\* Lines 66-67: a bare column becomes a new one-element tuple; the local name
\* is rebound, no existing node is changed.
BindExclude(exclude, dflt) ==
    IF isinstance(exclude, {"Column"})
    THEN [exclude |-> Tuple(<<exclude>>), defaults |-> dflt]
    ELSE [exclude |-> exclude, defaults |-> dflt]

\* normalize_identifiers works in place on the nodes of exclude.expressions.
\* When exclude is the shared default tuple, those nodes are the default's.
NormalizedInPlace(given, exclude, dflt) ==
    IF given = Omitted
    THEN [dflt EXCEPT !.exclude.expressions =
              [i \in DOMAIN exclude.expressions |->
                  normalize_identifiers(exclude.expressions[i])]]
    ELSE dflt

\* Lines 69-72: the set of normalized names to leave out.
excluded_names(exclude) ==
    {name(normalize_identifiers(exclude.expressions[i])) :
        i \in DOMAIN exclude.expressions}

\* A variant of table_identifier without the fallback to the relation.
table_identifier_alias_only(alias, relation) == name(alias)

\* Line 74: alias.name or relation.name (an empty string is false).
table_identifier(alias, relation) ==
    IF name(alias) # "" THEN name(alias) ELSE name(relation)

\* A variant of columns_to_types that compares the keys case-insensitively
\* and so drops a quoted column that only differs in case.
columns_to_types_folded(cols, excluded) ==
    SelectSeq(cols, LAMBDA c : Lower(c.name) \notin excluded)

\* Lines 76-78: the resolver's map without the excluded keys, in map order.
columns_to_types(cols, excluded) ==
    SelectSeq(cols, LAMBDA c : c.name \notin excluded)

\* A variant of select_only_projection that still aliases the column.
select_only_projection_aliased(c, table, quoted, prefix, suffix) ==
    as_(column(c.name, table, quoted), prefix.this \o c.name \o suffix.this, quoted)

\* Lines 81-84: a bare qualified column reference.
select_only_projection(c, table, quoted, prefix, suffix) ==
    column(c.name, table, quoted)

\* Lines 87-94: CAST(table.column AS dtype) AS prefix+column+suffix.
cast_projection(c, table, quoted, prefix, suffix) ==
    as_(cast(column(c.name, table, quoted), c.type),
        prefix.this \o c.name \o suffix.this, quoted)

\* Lines 95-100: table.column AS prefix+column+suffix, no cast.
plain_projection(c, table, quoted, prefix, suffix) ==
    as_(column(c.name, table, quoted), prefix.this \o c.name \o suffix.this, quoted)

\* The helper line 86 names.  The module does not bind the name (see
\* ModuleGlobals), so the call is reached only through Bound.
columns_to_types_all_known(cols) ==
    \A i \in DOMAIN cols : cols[i].type # "UNKNOWN"

\* The body of star_v2, lines 47-100.  evaluator.columns_to_types is the
\* resolver's answer for the relation; dflt are the shared default nodes.
\* The outcome carries the default nodes as the call leaves them.
star_v2(evaluator, args, dflt) ==
    LET alias == Arg(args.alias, dflt.alias)
        exclude0 == Arg(args.exclude, dflt.exclude)
        prefix == Arg(args.prefix, dflt.prefix)
        suffix == Arg(args.suffix, dflt.suffix)
        quote_identifiers == Arg(args.quote_identifiers, dflt.quote_identifiers)
        except_ == Arg(args.except_, dflt.except_)
        select_only == Arg(args.select_only, dflt.select_only)
        Containers == {"Array", "Tuple", "Column"}
        warned == IF except_ # tuple_ THEN 1 ELSE 0
    IN
    IF Truthy(alias) /\ ~isinstance(alias, {"Identifier", "Column"})
    THEN Raise("SQLMeshError", "alias", 0, FALSE, dflt)
    ELSE IF Truthy(exclude0) /\ ~isinstance(exclude0, Containers)
    THEN Raise("SQLMeshError", "exclude", 0, FALSE, dflt)
    ELSE IF except_ # tuple_ /\ ~Bound("logger")
    THEN Raise("NameError", "logger", 0, FALSE, dflt)
    ELSE IF except_ # tuple_ /\ ~isinstance(exclude0, Containers)
    THEN Raise("SQLMeshError", "exclude_", warned, FALSE, dflt)
    ELSE IF Truthy(prefix) /\ ~isinstance(prefix, {"Literal"})
    THEN Raise("SQLMeshError", "prefix", warned, FALSE, dflt)
    ELSE IF Truthy(suffix) /\ ~isinstance(suffix, {"Literal"})
    THEN Raise("SQLMeshError", "suffix", warned, FALSE, dflt)
    ELSE IF ~isinstance(quote_identifiers, {"Boolean"})
    THEN Raise("SQLMeshError", "quote_identifiers", warned, FALSE, dflt)
    ELSE IF ~isinstance(select_only, {"Boolean"})
    THEN Raise("SQLMeshError", "select_only", warned, FALSE, dflt)
    ELSE
    LET bound == BindExclude(exclude0, dflt)
        exclude == bound.exclude
        excluded == excluded_names(exclude)
        dflt2 == NormalizedInPlace(args.exclude, exclude, bound.defaults)
        quoted == quote_identifiers.this
        table == table_identifier(alias, args.relation)
    IN
    IF ~evaluator.columns_to_types.ok
    THEN Raise("SQLMeshError", "relation", warned, TRUE, dflt2)
    ELSE
    LET cols == columns_to_types(evaluator.columns_to_types.columns, excluded)
    IN
    IF Truthy(select_only)
    THEN Return([i \in DOMAIN cols |->
                    select_only_projection(cols[i], table, quoted, prefix, suffix)],
                warned, dflt2)
    ELSE IF ~Bound("columns_to_types_all_known")
    THEN Raise("NameError", "columns_to_types_all_known", warned, TRUE, dflt2)
    ELSE IF columns_to_types_all_known(cols)
    THEN Return([i \in DOMAIN cols |->
                    cast_projection(cols[i], table, quoted, prefix, suffix)],
                warned, dflt2)
    ELSE Return([i \in DOMAIN cols |->
                    plain_projection(cols[i], table, quoted, prefix, suffix)],
                warned, dflt2)

\* ------------------------------------------------------- inputs of star_v2
ColumnNames == {"a", "c", "C"}
ColumnTypes == {"TEXT", "UNKNOWN"}

Range(f) == {f[i] : i \in DOMAIN f}

\* Injective sequences of length n over S (a dict has no duplicate keys).
RECURSIVE InjSeqs(_, _)
InjSeqs(S, n) ==
    IF n = 0 THEN {<<>>}
    ELSE UNION {{Append(q, x) : x \in S \ Range(q)} : q \in InjSeqs(S, n - 1)}

\* The ordered column maps the resolver can return: column name -> type.
ColumnTypeMaps ==
    UNION {{[i \in 1..n |-> [name |-> ks[i], type |-> ts[i]]] :
                ks \in InjSeqs(ColumnNames, n), ts \in [1..n -> ColumnTypes]} :
           n \in 0..MaxCols}

\* What evaluator.columns_to_types(relation) does: a map, or it raises.
Evaluators ==
    {[columns_to_types |-> [ok |-> TRUE, columns |-> m]] : m \in ColumnTypeMaps}
    \cup {[columns_to_types |-> [ok |-> FALSE, columns |-> <<>>]]}

Relations == {[kind |-> "Table", this |-> "foo"]}
AliasArgs == {Omitted, Column("", FALSE), Column("bar", FALSE), Literal("bar")}
ExcludeArgs ==
    {Omitted,
     Column("c", FALSE),
     Array(<<Column("A", FALSE), Column("C", TRUE)>>),
     Tuple(<<Column("C", FALSE)>>),
     Literal("c")}
PrefixArgs == {Omitted, Literal("baz_"), Column("baz_", FALSE)}
SuffixArgs == {Omitted, Literal("_x"), Boolean(TRUE)}
QuoteArgs == {Omitted, Boolean(FALSE), Literal("false")}
ExceptArgs == {Omitted, Tuple(<<>>), Tuple(<<Column("c", FALSE)>>), Literal("c")}
SelectOnlyArgs == {Omitted, Boolean(TRUE), Boolean(FALSE), Literal("true")}

\* ------------------------------------------- generate_surrogate_key__sha_256
\* exp.func(name, *args)
func(fname, args) == [kind |-> "Func", this |-> fname, expressions |-> args]

\* A variant of coalesce_field that leaves out the COALESCE.
coalesce_field_bare(field) == cast(field, "TEXT")

\* Lines 21-27: COALESCE(CAST(field AS TEXT), '_sqlmesh_surrogate_key_null_').
coalesce_field(field) ==
    func("COALESCE",
         <<cast(field, "TEXT"), Literal("_sqlmesh_surrogate_key_null_")>>)

\* A variant of string_fields that puts the separator after every field.
RECURSIVE string_fields_trailing(_, _, _)
string_fields_trailing(fields, i, acc) ==
    IF i >= Len(fields) THEN acc
    ELSE string_fields_trailing(fields, i + 1,
             Append(Append(acc, coalesce_field(fields[i + 1])), Literal("|")))

\* Lines 17-27: the loop over enumerate(fields); i is the 0-based index and acc
\* the list string_fields built so far.
RECURSIVE string_fields(_, _, _)
string_fields(fields, i, acc) ==
    IF i >= Len(fields) THEN acc
    ELSE LET sep == IF i > 0 THEN Append(acc, Literal("|")) ELSE acc
         IN string_fields(fields, i + 1, Append(sep, coalesce_field(fields[i + 1])))

\* Line 28: digest(CONCAT(*string_fields), 'sha256').
generate_surrogate_key__sha_256(fields) ==
    func("digest", <<func("CONCAT", string_fields(fields, 0, <<>>)), Literal("sha256")>>)

FieldNames == {"a", "b", "c"}
FieldLists ==
    UNION {[1..n -> {Column(f, FALSE) : f \in FieldNames}] : n \in 0..MaxFields}

\* ------------------------------------------------- evaluation of the key
\* SQL values of a row: NULL, an integer or a text.
Null == [t |-> "null", i |-> 0, s |-> ""]
Integer(i) == [t |-> "int", i |-> i, s |-> ""]
Text(s) == [t |-> "text", i |-> 0, s |-> s]
Values ==
    {Null, Integer(1), Text("1"), Text("|"), Text("_sqlmesh_surrogate_key_null_")}
Rows == [FieldNames -> Values]

\* CAST(v AS TEXT): NULL stays NULL, a number becomes its digits.
CastText(v) ==
    IF v.t = "null" THEN Null
    ELSE IF v.t = "int" THEN Text(ToString(v.i))
    ELSE v

RECURSIVE Join(_)
Join(vs) == IF vs = <<>> THEN "" ELSE Head(vs).s \o Join(Tail(vs))

\* The value of an expression of the key on a row.  CONCAT is taken in its
\* strict form: a NULL argument makes the whole string NULL.
RECURSIVE Eval(_, _)
Eval(e, r) ==
    IF e.kind = "Column" THEN r[e.this]
    ELSE IF e.kind = "Literal" THEN Text(e.this)
    ELSE IF e.kind = "Cast" THEN CastText(Eval(e.this, r))
    ELSE IF e.this = "COALESCE"
    THEN LET first == Eval(e.expressions[1], r)
         IN IF first.t # "null" THEN first ELSE Eval(e.expressions[2], r)
    ELSE \* CONCAT
         LET vs == [i \in DOMAIN e.expressions |-> Eval(e.expressions[i], r)]
         IN IF \E i \in DOMAIN vs : vs[i].t = "null" THEN Null ELSE Text(Join(vs))

\* The string the digest function is applied to: its first argument.
HashedString(key, r) == Eval(key.expressions[1], r)

\* ------------------------------------------------------------ behaviour
\* pc is the position of the macro-expansion pass: "idle" between two
\* invocations, "returned" when an invocation has completed or raised and the
\* pass holds its outcome, "evaluated" when the engine has run the key on a row.
\* earlier tells whether an invocation completed before the current one.
NoCall == [macro |-> "none"]
NoOutcome == Raise("none", "none", 0, FALSE, DefaultNodes)
NoRow == [f \in FieldNames |-> Null]

Init ==
    /\ pc = "idle"
    /\ call = NoCall
    /\ outcome = NoOutcome
    /\ defaults = DefaultNodes
    /\ row = NoRow
    /\ hashed = Null
    /\ earlier = FALSE

\* One invocation of star_v2 by a macro-expansion pass.
StarV2 ==
    /\ pc = "idle"
    /\ \E relation \in Relations, alias \in AliasArgs, exclude \in ExcludeArgs,
          prefix \in PrefixArgs, suffix \in SuffixArgs,
          quote_identifiers \in QuoteArgs, except_ \in ExceptArgs,
          select_only \in SelectOnlyArgs, evaluator \in Evaluators :
        LET args == [relation |-> relation, alias |-> alias, exclude |-> exclude,
                     prefix |-> prefix, suffix |-> suffix,
                     quote_identifiers |-> quote_identifiers,
                     except_ |-> except_, select_only |-> select_only]
            out == star_v2(evaluator, args, defaults)
        IN /\ call' = [macro |-> "star_v2", args |-> args, evaluator |-> evaluator]
           /\ outcome' = out
           /\ defaults' = out.defaults
    /\ pc' = "returned"
    /\ UNCHANGED <<row, hashed, earlier>>

\* One invocation of generate_surrogate_key__sha_256.
GenerateSurrogateKey ==
    /\ pc = "idle"
    /\ \E fields \in FieldLists :
        /\ call' = [macro |-> "generate_surrogate_key__sha_256", fields |-> fields]
        /\ outcome' = Return(generate_surrogate_key__sha_256(fields), 0, defaults)
    /\ pc' = "returned"
    /\ UNCHANGED <<defaults, row, hashed, earlier>>

\* The engine evaluates the key the pass holds on one row.
EvaluateKey ==
    /\ pc = "returned"
    /\ call.macro = "generate_surrogate_key__sha_256"
    /\ \E r \in Rows :
        /\ row' = r
        /\ hashed' = HashedString(outcome.value, r)
    /\ pc' = "evaluated"
    /\ UNCHANGED <<call, outcome, defaults, earlier>>

\* The pass takes the outcome and goes on to its next macro; the shared
\* default nodes stay as the invocation left them.
Continue ==
    /\ pc # "idle"
    /\ pc' = "idle"
    /\ call' = NoCall
    /\ outcome' = NoOutcome
    /\ row' = NoRow
    /\ hashed' = Null
    /\ earlier' = TRUE
    /\ UNCHANGED defaults

Next == StarV2 \/ GenerateSurrogateKey \/ EvaluateKey \/ Continue

Spec == Init /\ [][Next]_vars

\* ------------------------------------------------------------- properties
\* What the properties read of the invocation the pass holds.
StarCalled == pc = "returned" /\ call.macro = "star_v2"
StarReturned == StarCalled /\ outcome.status = "return"
\* A parameter's value as the caller means it: the node given, or the default
\* of the signature.
Given(p) == IF p = "alias" THEN Arg(call.args.alias, DefaultNodes.alias)
            ELSE IF p = "exclude" THEN Arg(call.args.exclude, DefaultNodes.exclude)
            ELSE IF p = "prefix" THEN Arg(call.args.prefix, DefaultNodes.prefix)
            ELSE IF p = "suffix" THEN Arg(call.args.suffix, DefaultNodes.suffix)
            ELSE IF p = "quote_identifiers"
                 THEN Arg(call.args.quote_identifiers, DefaultNodes.quote_identifiers)
            ELSE IF p = "except_" THEN Arg(call.args.except_, DefaultNodes.except_)
            ELSE Arg(call.args.select_only, DefaultNodes.select_only)
ListKinds == {"Array", "Tuple", "Column"}
ShapeOk(p) ==
    IF p = "alias" THEN Given(p).kind \in {"Identifier", "Column"}
    ELSE IF p \in {"exclude", "except_"} THEN Given(p).kind \in ListKinds
    ELSE IF p \in {"prefix", "suffix"} THEN Given(p).kind = "Literal"
    ELSE Given(p).kind = "Boolean"
Parameters ==
    {"alias", "exclude", "prefix", "suffix", "quote_identifiers", "except_",
     "select_only"}
WellShaped == \A p \in Parameters : ShapeOk(p)
LegacyUnused == Given("except_") = Tuple(<<>>)
ResolverOk == call.evaluator.columns_to_types.ok
\* The resolver's map, its keys, and the normalized exclusion set.
ResolverMap == call.evaluator.columns_to_types.columns
Keys == {ResolverMap[i].name : i \in DOMAIN ResolverMap}
ExcludeList ==
    IF Given("exclude").kind = "Column" THEN <<Given("exclude")>>
    ELSE Given("exclude").expressions
Excluded ==
    {IF ExcludeList[i].quoted THEN ExcludeList[i].this ELSE Lower(ExcludeList[i].this) :
        i \in DOMAIN ExcludeList}
RetainedMap == SelectSeq(ResolverMap, LAMBDA c : c.name \notin Excluded)
KeyIndex(k) == CHOOSE i \in DOMAIN ResolverMap : ResolverMap[i].name = k
\* The column reference inside a projection, whatever wraps it.
ColumnOf(p) ==
    IF p.kind = "Alias"
    THEN (IF p.this.kind = "Cast" THEN p.this.this ELSE p.this)
    ELSE p
Qualifier ==
    IF Given("alias").this # "" THEN Given("alias").this ELSE call.args.relation.this
OutputAlias(c) == Given("prefix").this \o c.name \o Given("suffix").this
Quoted == Given("quote_identifiers").this

\* C2: the column names of the output are exactly the resolver's keys that are
\* not in the normalized exclusion set: none excluded, none added, none twice,
\* and in the relative order of the resolver's map.
C2_OutputIsRetainedColumnsInOrder ==
    StarReturned =>
        LET out == [i \in DOMAIN outcome.value |-> ColumnOf(outcome.value[i]).this]
        IN /\ \A i \in DOMAIN out : out[i] \in Keys /\ out[i] \notin Excluded
           /\ \A k \in Keys \ Excluded : \E i \in DOMAIN out : out[i] = k
           /\ \A i, j \in DOMAIN out : out[i] = out[j] => i = j
           /\ \A i, j \in DOMAIN out : i < j => KeyIndex(out[i]) < KeyIndex(out[j])

\* A call over a map with the keys c and C that excludes the unquoted C: c is in the
\* exclusion set and the key c is dropped; the key C is not and is kept.
C2_Witness ==
    /\ StarReturned
    /\ call.args.exclude = Tuple(<<Column("C", FALSE)>>)
    /\ Len(ResolverMap) = 2
    /\ Keys = {"c", "C"}
    /\ Len(outcome.value) = 1
    /\ ColumnOf(outcome.value[1]).this = "C"

\* C3: with select_only the literal true, a call with well-shaped arguments
\* returns, and what any such call returns is one bare qualified column
\* reference per retained column (no CAST, no alias), whatever the types are;
\* prefix and suffix change nothing.
C3_SelectOnlyBareColumns ==
    (StarCalled /\ call.args.select_only = Boolean(TRUE)) =>
        /\ (WellShaped /\ LegacyUnused /\ ResolverOk) => outcome.status = "return"
        /\ outcome.status = "return" =>
            /\ Len(outcome.value) = Len(RetainedMap)
            /\ \A i \in DOMAIN outcome.value :
                  outcome.value[i] =
                      [kind |-> "Column", this |-> RetainedMap[i].name,
                       table |-> Qualifier, quoted |-> Quoted]
            /\ outcome.value =
                  star_v2(call.evaluator,
                          [call.args EXCEPT !.prefix = Omitted, !.suffix = Omitted],
                          DefaultNodes).value

\* A select_only call with a prefix and a suffix over a map with one known
\* and one unknown type that returns both columns.
C3_Witness ==
    /\ StarReturned
    /\ call.args.select_only = Boolean(TRUE)
    /\ call.args.prefix = Literal("baz_")
    /\ call.args.suffix = Literal("_x")
    /\ Len(outcome.value) = 2
    /\ {ResolverMap[i].type : i \in DOMAIN ResolverMap} = {"TEXT", "UNKNOWN"}

\* C10: in every projection returned, the table qualifier is the alias name
\* when an alias with a non-empty name is given and the relation's name
\* otherwise; it is never empty and is the same for the whole call.
C10_QualifierIsAliasOrRelation ==
    StarReturned =>
        /\ Qualifier # ""
        /\ \A i \in DOMAIN outcome.value :
              ColumnOf(outcome.value[i]).table = Qualifier

\* A call with an explicitly empty alias whose projections are qualified by
\* the relation's name.
C10_Witness ==
    /\ StarReturned
    /\ call.args.alias = Column("", FALSE)
    /\ Len(outcome.value) = 2
    /\ ColumnOf(outcome.value[1]).table = "foo"
    /\ ColumnOf(outcome.value[2]).table = "foo"

CastProjections ==
    [i \in DOMAIN RetainedMap |->
        [kind |-> "Alias",
         this |-> [kind |-> "Cast",
                   this |-> [kind |-> "Column", this |-> RetainedMap[i].name,
                             table |-> Qualifier, quoted |-> Quoted],
                   to |-> RetainedMap[i].type],
         alias |-> OutputAlias(RetainedMap[i]),
         quoted |-> Quoted]]
\* The projections C4 expects: qualifier.column AS prefix+column+suffix.
PlainProjections ==
    [i \in DOMAIN RetainedMap |->
        [kind |-> "Alias",
         this |-> [kind |-> "Column", this |-> RetainedMap[i].name,
                   table |-> Qualifier, quoted |-> Quoted],
         alias |-> OutputAlias(RetainedMap[i]),
         quoted |-> Quoted]]
AllKnown == \A i \in DOMAIN RetainedMap : RetainedMap[i].type # "UNKNOWN"

\* C1: with select_only the literal false (given or by default) and every
\* retained column of a known type, the call returns one CAST projection
\* aliased prefix+column+suffix per retained column, in map order.
C1_CastWhenAllTypesKnown ==
    (StarCalled /\ Given("select_only") = Boolean(FALSE) /\ WellShaped
        /\ LegacyUnused /\ ResolverOk /\ AllKnown) =>
        /\ outcome.status = "return"
        /\ outcome.value = CastProjections

\* C4: with select_only the literal false and a retained column of unknown
\* type, the call returns and every projection is the plain column aliased
\* prefix+column+suffix, none of them cast.
C4_NoCastWhenSomeTypeUnknown ==
    (StarCalled /\ Given("select_only") = Boolean(FALSE) /\ WellShaped
        /\ LegacyUnused /\ ResolverOk /\ ~AllKnown) =>
        /\ outcome.status = "return"
        /\ outcome.value = PlainProjections

\* C5: a call that gives a non-empty list as except_ and no exclude returns
\* what the call giving that list as exclude returns, and emits exactly one
\* deprecation warning where the other emits none.
C5_LegacyExcludeEquivalent ==
    (StarCalled /\ call.args.exclude = Omitted
        /\ call.args.except_ = Tuple(<<Column("c", FALSE)>>)) =>
        LET primary ==
                star_v2(call.evaluator,
                        [call.args EXCEPT !.exclude = call.args.except_,
                                          !.except_ = Omitted],
                        DefaultNodes)
        IN /\ outcome.status = primary.status
           /\ outcome.value = primary.value
           /\ outcome.warned = 1
           /\ primary.warned = 0

\* C6: a call with a wrongly shaped argument ends in a configuration error
\* raised before the resolver is consulted, with nothing returned.
C6_WrongShapeRaisesConfigurationError ==
    (StarCalled /\ ~WellShaped) =>
        /\ outcome.status = "raise"
        /\ outcome.error = "SQLMeshError"
        /\ ~outcome.consulted
        /\ outcome.value = <<>>

KeyCalled ==
    pc \in {"returned", "evaluated"} /\ call.macro = "generate_surrogate_key__sha_256"
Coalesced(field) ==
    [kind |-> "Func", this |-> "COALESCE",
     expressions |->
        <<[kind |-> "Cast", this |-> field, to |-> "TEXT"],
          [kind |-> "Literal", this |-> "_sqlmesh_surrogate_key_null_"]>>]
\* g holds the fields of f in another order.
Reordered(f, g) ==
    /\ Len(f) = Len(g)
    /\ f # g
    /\ \A x \in Range(f) \cup Range(g) :
          Cardinality({i \in DOMAIN f : f[i] = x}) =
          Cardinality({i \in DOMAIN g : g[i] = x})

\* C7: for n >= 1 fields the key is one digest call over a CONCAT of exactly
\* 2n-1 arguments and the literal 'sha256': the i-th field coalesced at the
\* odd positions in input order, '|' at every even position, no separator at
\* either end; the same fields in another order give another expression.
C7_KeyIsDigestOfSeparatedCoalescedFields ==
    (KeyCalled /\ Len(call.fields) >= 1) =>
        LET key == outcome.value
            n == Len(call.fields)
            concat == key.expressions[1]
        IN /\ key.kind = "Func" /\ key.this = "digest"
           /\ Len(key.expressions) = 2
           /\ key.expressions[2] = [kind |-> "Literal", this |-> "sha256"]
           /\ concat.kind = "Func" /\ concat.this = "CONCAT"
           /\ Len(concat.expressions) = 2 * n - 1
           /\ \A i \in 1..n : concat.expressions[2 * i - 1] = Coalesced(call.fields[i])
           /\ \A i \in 1..(n - 1) :
                 concat.expressions[2 * i] = [kind |-> "Literal", this |-> "|"]
           /\ \A g \in FieldLists :
                 Reordered(call.fields, g) => generate_surrogate_key__sha_256(g) # key

\* A key built over the two fields a, b: three CONCAT arguments.
C7_Witness ==
    /\ KeyCalled
    /\ call.fields = <<Column("a", FALSE), Column("b", FALSE)>>
    /\ Len(outcome.value.expressions[1].expressions) = 3

\* The columns the key is built over.
KeyColumns == {call.fields[i].this : i \in DOMAIN call.fields}
\* r and q differ in the one key column f only, NULL in one of them and in the
\* other a value whose text is not the sentinel.
DifferByNull(r, q, f) ==
    /\ \A g \in FieldNames \ {f} : r[g] = q[g]
    /\ \/ r[f].t = "null" /\ q[f].t # "null"
             /\ CastText(q[f]).s # "_sqlmesh_surrogate_key_null_"
       \/ q[f].t = "null" /\ r[f].t # "null"
             /\ CastText(r[f]).s # "_sqlmesh_surrogate_key_null_"

\* C8: for a non-empty field list the string that is hashed is never NULL,
\* whichever fields of the row are NULL, and two rows that differ only in one
\* key field, NULL in one row and a value other than the sentinel text in the
\* other, give different strings.
C8_HashedStringNullSafe ==
    (pc = "evaluated" /\ Len(call.fields) >= 1) =>
        /\ hashed.t = "text"
        /\ \A q \in Rows : \A f \in KeyColumns :
              DifferByNull(row, q, f) => HashedString(outcome.value, q) # hashed

\* The key over a, b evaluated on a row whose a is NULL and whose b is '|'.
C8_Witness ==
    /\ pc = "evaluated"
    /\ call.fields = <<Column("a", FALSE), Column("b", FALSE)>>
    /\ row["a"].t = "null"
    /\ row["b"] = Text("|")
    /\ hashed = Text("_sqlmesh_surrogate_key_null_||")

====
